---- MODULE Spec2Model ----
(***************************************************************************)
(* Model of the Traindown session builder (parser.go): the two entry       *)
(* points ParseByte / ParseString and the token fold parse().              *)
(*                                                                         *)
(* Strings are sequences of one-character strings, so that the string      *)
(* operations the builder relies on (strings.Split, strings.Trim,          *)
(* strconv.Atoi, strconv.ParseFloat) are computed, not assumed.            *)
(***************************************************************************)
EXTENDS Integers, Sequences, FiniteSets, TLC

\* Longest token stream the scanner hands to parse().
MaxTokens == 3

----------------------------------------------------------------------------
\* String helpers

Digits == {"0", "1", "2", "3", "4", "5", "6", "7", "8", "9"}

DigitVal(c) ==
    CASE c = "0" -> 0 [] c = "1" -> 1 [] c = "2" -> 2 [] c = "3" -> 3
      [] c = "4" -> 4 [] c = "5" -> 5 [] c = "6" -> 6 [] c = "7" -> 7
      [] c = "8" -> 8 [] c = "9" -> 9

AllDigits(str) == \A i \in 1..Len(str) : str[i] \in Digits

RECURSIVE NatOf(_)
NatOf(str) ==
    IF str = <<>> THEN 0
    ELSE NatOf(SubSeq(str, 1, Len(str) - 1)) * 10 + DigitVal(str[Len(str)])

\* Index of the first occurrence of character c in str, 0 when absent.
IndexOf(str, c) ==
    IF \E i \in 1..Len(str) : str[i] = c
    THEN CHOOSE i \in 1..Len(str) : str[i] = c /\ \A j \in 1..(i - 1) : str[j] # c
    ELSE 0

\* strings.Split(str, sep) for a one-character separator: every piece.
RECURSIVE Split(_, _)
Split(str, sep) ==
    LET i == IndexOf(str, sep)
    IN  IF i = 0 THEN <<str>>
        ELSE <<SubSeq(str, 1, i - 1)>> \o Split(SubSeq(str, i + 1, Len(str)), sep)

\* strings.Trim(str, cut) for a one-character cutset.
RECURSIVE TrimLeft(_, _)
TrimLeft(str, cut) ==
    IF str # <<>> /\ str[1] = cut THEN TrimLeft(Tail(str), cut) ELSE str

RECURSIVE TrimRight(_, _)
TrimRight(str, cut) ==
    IF str # <<>> /\ str[Len(str)] = cut
    THEN TrimRight(SubSeq(str, 1, Len(str) - 1), cut)
    ELSE str

Trim(str, cut) == TrimRight(TrimLeft(str, cut), cut)

\* Strips one leading sign; strconv accepts "+" and "-".
Unsigned(str) ==
    IF str # <<>> /\ str[1] \in {"+", "-"} THEN Tail(str) ELSE str

Signed(str, n) == IF str # <<>> /\ str[1] = "-" THEN 0 - n ELSE n

\* strconv.Atoi: an optional sign and at least one decimal digit.
Atoi(str) ==
    LET body == Unsigned(str)
    IN  IF body # <<>> /\ AllDigits(body)
        THEN [ok |-> TRUE, val |-> Signed(str, NatOf(body))]
        ELSE [ok |-> FALSE, val |-> 0]

\* strconv.ParseFloat(str, 32) on the decimal-integer syntax (an optional
\* sign and digits; the values used are exactly representable as float32,
\* and "-0" compares equal to 0).  Anything else in the token alphabet
\* below is not a number.
ParseFloat(str) ==
    LET body == Unsigned(str)
    IN  IF body # <<>> /\ AllDigits(body)
        THEN [ok |-> TRUE, val |-> Signed(str, NatOf(body))]
        ELSE [ok |-> FALSE, val |-> 0]

NoError == [failed |-> FALSE, t |-> "", s |-> <<>>]

ParseError(t, str) == [failed |-> TRUE, t |-> t, s |-> str]

floatValue(str, t) ==
    LET r == ParseFloat(str)
    IN  IF r.ok THEN [val |-> r.val, err |-> NoError]
        ELSE [val |-> 0, err |-> ParseError(t, str)]

intValue(str, t) ==
    LET r == Atoi(str)
    IN  IF r.ok THEN [val |-> r.val, err |-> NoError]
        ELSE [val |-> 0, err |-> ParseError(t, str)]

\* dateparse.ParseAny, the external date interpreter, on the two shapes of
\* value the token alphabet carries: a four-digit year is a date (its
\* timestamp is the year), a value with no digit in it is not.
DateParseAny(str) ==
    IF Len(str) = 4 /\ AllDigits(str)
    THEN [ok |-> TRUE, time |-> NatOf(str)]
    ELSE [ok |-> FALSE, time |-> 0]

\* The zero time.Time
ZeroTime == 0

\* Readings time.Now() can give during a parse.
Clock == {9001, 9002}

----------------------------------------------------------------------------
\* Data model

EmptyMap == [k \in {} |-> <<>>]

Put(map, key, value) ==
    [k \in (DOMAIN map) \cup {key} |-> IF k = key THEN value ELSE map[k]]

\* A Performance left at Go's zero values.
NewPerformance_ZeroValue ==
    [Fails |-> 0, Load |-> 0, PercentOfMax |-> 0, Reps |-> 0, Sequence |-> 0,
     Sets |-> 0, Unit |-> <<>>, Metadata |-> EmptyMap, Notes |-> <<>>]

NewPerformance ==
    [Fails |-> 0, Load |-> 0, PercentOfMax |-> 0, Reps |-> 1, Sequence |-> 0,
     Sets |-> 1, Unit |-> <<>>, Metadata |-> EmptyMap, Notes |-> <<>>]

NewMovement ==
    [Name |-> <<>>, Sequence |-> 0, SuperSet |-> FALSE, Performances |-> <<>>,
     Metadata |-> EmptyMap, Notes |-> <<>>]

NewSession ==
    [Date |-> ZeroTime, Errors |-> <<>>, Movements |-> <<>>,
     Metadata |-> EmptyMap, Notes |-> <<>>]

\* &Session{}: every field at its zero value.
EmptySession ==
    [Date |-> ZeroTime, Errors |-> <<>>, Movements |-> <<>>,
     Metadata |-> EmptyMap, Notes |-> <<>>]

----------------------------------------------------------------------------
\* Tokens: the scanner's output, a kind (Name) and a raw value.

Tok(name, value) == [name |-> name, value |-> value]

MovementKinds == {"MOVEMENT", "MOVEMENT_SS"}

DateTokens  == {Tok("DATE", <<"2", "0", "2", "3">>), Tok("DATE", <<"x">>)}
FailsTokens == {Tok("FAILS", <<"2">>), Tok("FAILS", <<"x">>)}
LoadTokens  == {Tok("LOAD", <<"8", "0">>), Tok("LOAD", <<"0">>), Tok("LOAD", <<"x">>)}
MetadataTokens ==
    {Tok("METADATA", <<"k", ":", " ", "v">>),
     Tok("METADATA", <<"k", ":", "a", ":", "b">>),
     Tok("METADATA", <<"k">>)}
MovementTokens ==
    {Tok("MOVEMENT", <<"S">>), Tok("MOVEMENT", <<>>),
     Tok("MOVEMENT_SS", <<"B">>), Tok("MOVEMENT_SS", <<>>)}
NoteTokens  == {Tok("NOTE", <<"n">>)}
RepsTokens  == {Tok("REPS", <<"5">>), Tok("REPS", <<"x">>)}
SetsTokens  == {Tok("SETS", <<"3">>), Tok("SETS", <<"x">>)}
\* A kind the scanner knows and the builder has no case for.
OtherTokens == {Tok("UNIT", <<"k", "g">>)}

----------------------------------------------------------------------------
\* The builder: parse().  Its locals m, p, s, inSession, inPerformance are
\* carried in a record st; one operator per case of the token switch.

AppendError(sess, e) ==
    IF e.failed THEN [sess EXCEPT !.Errors = Append(@, e)] ELSE sess

\* parse(): the locals before the first token.  m and p are pointers: m, p
\* and the lists hold the values of the objects.  pHeld is where the very
\* object p points to is listed: <<0, i>> for place i of m.Performances and
\* <<j, i>> for place i of s.Movements[j].Performances; mHeld is the places
\* of s.Movements that hold the very object m points to.
ParseStart ==
    [m |-> NewMovement, p |-> NewPerformance, s |-> NewSession,
     inSession |-> TRUE, inPerformance |-> FALSE, pHeld |-> {}, mHeld |-> {}]

\* A write through p or m is a write to the one object: the places that hold
\* it show it too.
Shared(st) ==
    LET Seen(ps, j) ==
            [i \in 1..Len(ps) |-> IF <<j, i>> \in st.pHeld THEN st.p ELSE ps[i]]
        m1 == [st.m EXCEPT !.Performances = Seen(@, 0)]
        ms == st.s.Movements
    IN  [st EXCEPT !.m = m1,
                   !.s.Movements =
                     [j \in 1..Len(ms) |->
                        IF j \in st.mHeld THEN m1
                        ELSE [ms[j] EXCEPT !.Performances = Seen(@, j)]]]

\* OnDate that falls back to the clock without recording the diagnostic.
OnDate_NoDiagnostic(st, v, now) ==
    LET d == DateParseAny(v)
    IN  IF ~d.ok
        THEN [st EXCEPT !.s.Date = now]
        ELSE [st EXCEPT !.s.Date = d.time]

\* case "DATE"; now is the reading of time.Now() the fallback would take.
OnDate(st, v, now) ==
    LET d == DateParseAny(v)
    IN  IF ~d.ok
        THEN [st EXCEPT !.s = [AppendError(@, ParseError("date", v))
                                 EXCEPT !.Date = now]]
        ELSE [st EXCEPT !.s.Date = d.time]

\* case "FAILS"
OnFails(st, v) ==
    LET r == intValue(v, "fails")
    IN  [st EXCEPT !.s = AppendError(@, r.err), !.p.Fails = r.val]

\* A flush that puts the performance at the head of the list.
FlushPerformance_Prepends(st) ==
    IF st.inPerformance
    THEN [st EXCEPT !.m.Performances = <<st.p>> \o @, !.p = NewPerformance,
                    !.pHeld = {}]
    ELSE st

\* A flush that appends p and goes on with the same object (no p =
\* NewPerformance()).
FlushPerformance_KeepsPointer(st) ==
    IF st.inPerformance
    THEN [st EXCEPT !.m.Performances = Append(@, st.p),
                    !.pHeld = @ \cup {<<0, Len(st.m.Performances) + 1>>}]
    ELSE st

\* if inPerformance { m.Performances = append(m.Performances, p); p = NewPerformance() }
FlushPerformance(st) ==
    IF st.inPerformance
    THEN [st EXCEPT !.m.Performances = Append(@, st.p), !.p = NewPerformance,
                    !.pHeld = {}]
    ELSE st

\* OnLoad that overwrites the open performance instead of flushing it.
OnLoad_NoFlush(st, v) ==
    LET r == floatValue(v, "load")
    IN  [st EXCEPT !.s = AppendError(@, r.err), !.p.Load = r.val,
                   !.inPerformance = TRUE]

\* case "LOAD"
OnLoad(st, v) ==
    LET st1 == FlushPerformance(st)
        r   == floatValue(v, "load")
    IN  [st1 EXCEPT !.s = AppendError(@, r.err), !.p.Load = r.val,
                    !.inPerformance = TRUE]

\* pair := strings.Split(tok.Value(), ":")
MetadataPair(v) == Split(v, ":")

\* pair[1] is read without a length check: a value with no ":" in it makes
\* the index expression panic (index out of range).
MetadataPanics(v) == Len(MetadataPair(v)) < 2

MetadataKey(v) == Trim(MetadataPair(v)[1], " ")

MetadataValue(v) == Trim(MetadataPair(v)[2], " ")

\* OnMetadata with the two scope tests in the other order.
OnMetadata_PerformanceFirst(st, v) ==
    LET key   == MetadataKey(v)
        value == MetadataValue(v)
    IN  IF st.inPerformance THEN [st EXCEPT !.p.Metadata = Put(@, key, value)]
        ELSE IF st.inSession THEN [st EXCEPT !.s.Metadata = Put(@, key, value)]
        ELSE [st EXCEPT !.m.Metadata = Put(@, key, value)]

\* case "METADATA", for a value whose pair[1] exists.
OnMetadata(st, v) ==
    LET key   == MetadataKey(v)
        value == MetadataValue(v)
    IN  IF st.inSession THEN [st EXCEPT !.s.Metadata = Put(@, key, value)]
        ELSE IF st.inPerformance THEN [st EXCEPT !.p.Metadata = Put(@, key, value)]
        ELSE [st EXCEPT !.m.Metadata = Put(@, key, value)]

\* An append of the movement that goes on with the same object (no m =
\* NewMovement()).
FlushMovement_KeepsPointer(st) ==
    IF st.m.Name # <<>>
    THEN [st EXCEPT !.s.Movements = Append(@, st.m),
                    !.mHeld = @ \cup {Len(st.s.Movements) + 1}]
    ELSE st

\* if m.Name != "" { s.Movements = append(s.Movements, m); m = NewMovement() }
\* What the appended Movement lists is from now on listed in the Session's
\* last movement.
FlushMovement(st) ==
    IF st.m.Name # <<>>
    THEN [st EXCEPT !.s.Movements = Append(@, st.m), !.m = NewMovement,
                    !.mHeld = {},
                    !.pHeld = {IF h[1] = 0 THEN <<Len(st.s.Movements) + 1, h[2]>>
                                           ELSE h : h \in @}]
    ELSE st

\* OnMovement that does not leave the session scope.
OnMovement_StaysInSession(st, name, v) ==
    LET st1 == [FlushPerformance(st) EXCEPT !.inPerformance = FALSE]
        st2 == FlushMovement(st1)
    IN  [st2 EXCEPT !.m.Name = v,
                    !.m.SuperSet = IF name = "MOVEMENT_SS" THEN TRUE ELSE @]

\* OnMovement that goes on with the current Movement when the name repeats.
OnMovement_MergesSameName(st, name, v) ==
    LET st1 == [FlushPerformance([st EXCEPT !.inSession = FALSE])
                  EXCEPT !.inPerformance = FALSE]
        st2 == IF v = st1.m.Name THEN st1 ELSE FlushMovement(st1)
    IN  [st2 EXCEPT !.m.Name = v,
                    !.m.SuperSet = IF name = "MOVEMENT_SS" THEN TRUE ELSE @]

\* case "MOVEMENT", "MOVEMENT_SS"
OnMovement(st, name, v) ==
    LET st1 == [FlushPerformance([st EXCEPT !.inSession = FALSE])
                  EXCEPT !.inPerformance = FALSE]
        st2 == FlushMovement(st1)
    IN  [st2 EXCEPT !.m.Name = v,
                    !.m.SuperSet = IF name = "MOVEMENT_SS" THEN TRUE ELSE @]

\* OnNote with the two scope tests in the other order.
OnNote_PerformanceFirst(st, v) ==
    IF st.inPerformance THEN [st EXCEPT !.p.Notes = Append(@, v)]
    ELSE IF st.inSession THEN [st EXCEPT !.s.Notes = Append(@, v)]
    ELSE [st EXCEPT !.m.Notes = Append(@, v)]

\* case "NOTE"
OnNote(st, v) ==
    IF st.inSession THEN [st EXCEPT !.s.Notes = Append(@, v)]
    ELSE IF st.inPerformance THEN [st EXCEPT !.p.Notes = Append(@, v)]
    ELSE [st EXCEPT !.m.Notes = Append(@, v)]

\* case "REPS"
OnReps(st, v) ==
    LET r == intValue(v, "reps")
    IN  [st EXCEPT !.s = AppendError(@, r.err), !.p.Reps = r.val]

\* case "SETS"
OnSets(st, v) ==
    LET r == intValue(v, "sets")
    IN  [st EXCEPT !.s = AppendError(@, r.err), !.p.Sets = r.val]

\* A default case that reports the unknown kind.
OnOther_Diagnoses(st, v) ==
    [st EXCEPT !.s = AppendError(@, ParseError("kind", v))]

\* A token name the switch has no case for: the loop goes on.
OnOther(st, v) == st

\* Finish that flushes whatever performance is open, whatever its load.
Finish_FlushOpen(st) ==
    LET st1 == IF st.inPerformance
               THEN [st EXCEPT !.m.Performances = Append(@, st.p),
                               !.pHeld = @ \cup {<<0, Len(st.m.Performances) + 1>>}]
               ELSE st
    IN  IF st1.m.Name # <<>>
        THEN [st1 EXCEPT !.s.Movements = Append(@, st1.m),
                         !.mHeld = @ \cup {Len(st1.s.Movements) + 1}]
        ELSE st1

\* After the loop: the trailing performance and movement; p and m go on
\* pointing to what was appended.
Finish(st) ==
    LET st1 == IF st.p.Load # 0
               THEN [st EXCEPT !.m.Performances = Append(@, st.p),
                               !.pHeld = @ \cup {<<0, Len(st.m.Performances) + 1>>}]
               ELSE st
    IN  IF st1.m.Name # <<>>
        THEN [st1 EXCEPT !.s.Movements = Append(@, st1.m),
                         !.mHeld = @ \cup {Len(st1.s.Movements) + 1}]
        ELSE st1

\* One iteration of the loop, for a token that does not panic.
Body(st, tok, now) ==
    Shared(
    CASE tok.name = "DATE"     -> OnDate(st, tok.value, now)
      [] tok.name = "FAILS"    -> OnFails(st, tok.value)
      [] tok.name = "LOAD"     -> OnLoad(st, tok.value)
      [] tok.name = "METADATA" -> OnMetadata(st, tok.value)
      [] tok.name \in MovementKinds -> OnMovement(st, tok.name, tok.value)
      [] tok.name = "NOTE"     -> OnNote(st, tok.value)
      [] tok.name = "REPS"     -> OnReps(st, tok.value)
      [] tok.name = "SETS"     -> OnSets(st, tok.value)
      [] OTHER                 -> OnOther(st, tok.value))

----------------------------------------------------------------------------
\* Errors an entry point returns.

NilError == [wrapped |-> FALSE, cause |-> "nil"]

\* return &Session{}, err
LexerError == [wrapped |-> FALSE, cause |-> "NewLexer"]

\* fmt.Errorf("Failed to parse: %q", err)
WrapError(cause) == [wrapped |-> TRUE, cause |-> cause]

----------------------------------------------------------------------------
\* The text handed to an entry point.  A Go string and a []byte are both
\* sequences of bytes (numbers below 256); a string need not be valid UTF-8.

\* "#k" and "#" followed by the byte 0xFF, which is no UTF-8 encoding.
Texts == {<<35, 107>>, <<35, 255>>}

\* A conversion through []rune: every byte that is no valid UTF-8 (here: any
\* byte above 127, the texts holding no multi-byte encoding) comes back as
\* the three bytes of U+FFFD.
RECURSIVE Bytes_ThroughRunes(_)
Bytes_ThroughRunes(str) ==
    IF str = <<>> THEN <<>>
    ELSE (IF str[1] > 127 THEN <<239, 191, 189>> ELSE <<str[1]>>)
           \o Bytes_ThroughRunes(Tail(str))

\* []byte(txt): a copy of the string's bytes, undecoded.
Bytes(str) == [i \in 1..Len(str) |-> str[i]]

\* What the entry point e hands to lexer.Scan for the text it was given.
ScanArgument(e, text) == IF e = "ParseString" THEN Bytes(text) ELSE text

----------------------------------------------------------------------------
VARIABLES
    entry,          \* the entry point called: "ParseByte" or "ParseString"
    txt,            \* its argument
    scanned,        \* the bytes lexer.Scan was called with
    pc,             \* "start", "scan", "loop", "returned" or "panic"
    consumed,       \* the tokens the loop has taken so far, in order
    m, p, s,        \* parse(): current Movement, Performance, Session
    inSession, inPerformance,
    pHeld, mHeld,   \* where the objects p and m point to are listed
    failed,         \* the call whose err was non-nil: "none", "NewLexer", "Scan"
    ret             \* what the entry point returned: [session, err]

vars ==
    <<entry, txt, scanned, pc, failed, consumed, m, p, s, inSession,
      inPerformance, pHeld, mHeld, ret>>

builder == <<m, p, s, inSession, inPerformance, pHeld, mHeld>>

Entries == {"ParseByte", "ParseString"}

State ==
    [m |-> m, p |-> p, s |-> s, inSession |-> inSession,
     inPerformance |-> inPerformance, pHeld |-> pHeld, mHeld |-> mHeld]

Assign(st) ==
    /\ m' = st.m
    /\ p' = st.p
    /\ s' = st.s
    /\ inSession' = st.inSession
    /\ inPerformance' = st.inPerformance
    /\ pHeld' = st.pHeld
    /\ mHeld' = st.mHeld

NoReturn == [session |-> EmptySession, err |-> NilError]

Init ==
    /\ entry \in Entries
    /\ txt \in Texts
    /\ scanned = <<>>
    /\ pc = "start"
    /\ failed = "none"
    /\ consumed = <<>>
    /\ m = ParseStart.m
    /\ p = ParseStart.p
    /\ s = ParseStart.s
    /\ inSession = ParseStart.inSession
    /\ inPerformance = ParseStart.inPerformance
    /\ pHeld = ParseStart.pHeld
    /\ mHeld = ParseStart.mHeld
    /\ ret = NoReturn

----------------------------------------------------------------------------
\* ParseByte / ParseString up to the call of parse().

\* lexer, err := NewLexer(); if err != nil { return &Session{}, err }
NewLexerCall ==
    /\ pc = "start"
    /\ \E ok \in BOOLEAN :
         IF ok
         THEN pc' = "scan" /\ ret' = ret /\ failed' = failed
         ELSE pc' = "returned"
              /\ failed' = "NewLexer"
              /\ ret' = [session |-> EmptySession, err |-> LexerError]
    /\ UNCHANGED <<entry, txt, scanned, consumed, builder>>

\* tokens, err := lexer.Scan(...); on an error the wrapped error is returned,
\* otherwise parse(tokens) is entered.
Scan ==
    /\ pc = "scan"
    /\ \E ok \in BOOLEAN :
         IF ok
         THEN pc' = "loop" /\ Assign(ParseStart) /\ ret' = ret /\ failed' = failed
         ELSE pc' = "returned"
              /\ failed' = "Scan"
              /\ ret' = [session |-> EmptySession, err |-> WrapError("Scan")]
              /\ UNCHANGED builder
    /\ scanned' = ScanArgument(entry, txt)
    /\ UNCHANGED <<entry, txt, consumed>>

----------------------------------------------------------------------------
\* parse(): one action per case of the switch; the loop takes the next token
\* of the stream.

Take(tok) ==
    /\ pc = "loop"
    /\ Len(consumed) < MaxTokens
    /\ consumed' = Append(consumed, tok)
    /\ UNCHANGED <<entry, txt, scanned, failed, ret>>

Date ==
    \E tok \in DateTokens, now \in Clock :
        /\ Take(tok)
        /\ Assign(Shared(OnDate(State, tok.value, now)))
        /\ pc' = "loop"

Fails ==
    \E tok \in FailsTokens :
        /\ Take(tok)
        /\ Assign(Shared(OnFails(State, tok.value)))
        /\ pc' = "loop"

Load ==
    \E tok \in LoadTokens :
        /\ Take(tok)
        /\ Assign(Shared(OnLoad(State, tok.value)))
        /\ pc' = "loop"

Metadata ==
    \E tok \in MetadataTokens :
        /\ Take(tok)
        /\ IF MetadataPanics(tok.value)
           THEN pc' = "panic" /\ UNCHANGED builder
           ELSE pc' = "loop" /\ Assign(Shared(OnMetadata(State, tok.value)))

Movement ==
    \E tok \in MovementTokens :
        /\ Take(tok)
        /\ Assign(Shared(OnMovement(State, tok.name, tok.value)))
        /\ pc' = "loop"

Note ==
    \E tok \in NoteTokens :
        /\ Take(tok)
        /\ Assign(Shared(OnNote(State, tok.value)))
        /\ pc' = "loop"

Reps ==
    \E tok \in RepsTokens :
        /\ Take(tok)
        /\ Assign(Shared(OnReps(State, tok.value)))
        /\ pc' = "loop"

Sets ==
    \E tok \in SetsTokens :
        /\ Take(tok)
        /\ Assign(Shared(OnSets(State, tok.value)))
        /\ pc' = "loop"

Other ==
    \E tok \in OtherTokens :
        /\ Take(tok)
        /\ Assign(Shared(OnOther(State, tok.value)))
        /\ pc' = "loop"

\* The stream is exhausted: the trailing flush, parse() returns (s, nil) and
\* the entry point returns s, nil.
Return ==
    /\ pc = "loop"
    /\ Assign(Shared(Finish(State)))
    /\ ret' = [session |-> Shared(Finish(State)).s, err |-> NilError]
    /\ pc' = "returned"
    /\ UNCHANGED <<entry, txt, scanned, failed, consumed>>

Next ==
    \/ NewLexerCall
    \/ Scan
    \/ Date
    \/ Fails
    \/ Load
    \/ Metadata
    \/ Movement
    \/ Note
    \/ Reps
    \/ Sets
    \/ Other
    \/ Return

Spec == Init /\ [][Next]_vars

----------------------------------------------------------------------------
\* Reading the token history

Kinds(toks) == [i \in 1..Len(toks) |-> toks[i].name]

IsMovement(tok) == tok.name \in MovementKinds

HasMovement(toks) == \E i \in 1..Len(toks) : IsMovement(toks[i])

\* Index of the last Movement / MovementSuperset token, 0 if there is none.
LastMovementIdx(toks) ==
    IF HasMovement(toks)
    THEN CHOOSE i \in 1..Len(toks) :
            IsMovement(toks[i]) /\ \A j \in (i + 1)..Len(toks) : ~IsMovement(toks[j])
    ELSE 0

\* The Load tokens after the last Movement token (after the start if none).
LoadsSinceMovement(toks) ==
    SelectSeq(SubSeq(toks, LastMovementIdx(toks) + 1, Len(toks)),
              LAMBDA tok : tok.name = "LOAD")

LastToken == consumed[Len(consumed)]

\* The builder's locals after the loop has taken toks (none of which
\* panics), with every fallback reading of the clock taken as now.
RECURSIVE Run(_, _)
Run(toks, now) ==
    IF toks = <<>> THEN ParseStart
    ELSE Body(Run(SubSeq(toks, 1, Len(toks) - 1), now), toks[Len(toks)], now)

TypeOK ==
    /\ entry \in Entries
    /\ txt \in Texts
    /\ pc \in {"start", "scan", "loop", "returned", "panic"}
    /\ failed \in {"none", "NewLexer", "Scan"}
    /\ Len(consumed) <= MaxTokens
    /\ inSession \in BOOLEAN
    /\ inPerformance \in BOOLEAN
    /\ \A h \in pHeld :
          /\ h[1] \in 0..Len(s.Movements)
          /\ h[2] \in 1..Len(IF h[1] = 0 THEN m.Performances
                               ELSE s.Movements[h[1]].Performances)
    /\ mHeld \subseteq 1..Len(s.Movements)

----------------------------------------------------------------------------
\* Scope routing of Metadata and Note tokens

\* The scope a Metadata / Note token goes to, read off the tokens before it.
ScopeOf(toks) ==
    IF ~HasMovement(toks) THEN "session"
    ELSE IF LoadsSinceMovement(toks) # <<>> THEN "performance"
    ELSE "movement"

\* The entity x (Session, Movement or Performance) with the token attached.
Attach(x, tok) ==
    IF tok.name = "METADATA"
    THEN [x EXCEPT !.Metadata = Put(@, MetadataKey(tok.value), MetadataValue(tok.value))]
    ELSE [x EXCEPT !.Notes = Append(@, tok.value)]

\* The loop has just taken a token of one of the kinds and gone on.
Took(kinds) ==
    /\ pc = "loop"
    /\ pc' = "loop"
    /\ Len(consumed') = Len(consumed) + 1
    /\ consumed'[Len(consumed')].name \in kinds

\* C1: every Metadata pair and every Note value is attached to exactly one
\* scope: the Session if no Movement token came earlier in the stream,
\* otherwise the current Performance if a Load token came since the most
\* recent Movement token, otherwise the current Movement; the other two
\* entities are left as they were.
C1_ScopeRouting ==
    [][Took({"METADATA", "NOTE"}) =>
         LET tok   == consumed'[Len(consumed')]
             scope == ScopeOf(consumed)
         IN  /\ s' = IF scope = "session" THEN Attach(s, tok) ELSE s
             /\ p' = IF scope = "performance" THEN Attach(p, tok) ELSE p
             /\ m' = IF scope = "movement" THEN Attach(m, tok) ELSE m]_vars

\* C1 witness: Movement, Load, Metadata: the pair is in the performance only.
C1_Witness ==
    /\ pc = "loop"
    /\ Kinds(consumed) = <<"MOVEMENT", "LOAD", "METADATA">>
    /\ DOMAIN p.Metadata # {}
    /\ m.Metadata = EmptyMap
    /\ s.Metadata = EmptyMap

----------------------------------------------------------------------------
\* The trailing flush

\* The load the last Load token since the last Movement token parses to,
\* 0 when there is no such token.
TrailingLoad(toks) ==
    LET ls == LoadsSinceMovement(toks)
    IN  IF ls = <<>> THEN 0 ELSE floatValue(ls[Len(ls)].value, "load").val

NoLoad(toks) == \A i \in 1..Len(toks) : toks[i].name # "LOAD"

\* C2: at the end of the stream the current Performance is appended to the
\* current Movement iff its load (never set, explicitly zero and unparseable
\* all being zero) is non-zero, and no diagnostic is added; a stream with no
\* Load token that ends on a Movement token gives that Movement no
\* Performance.
C2_TrailingFlush ==
    [][(pc = "loop" /\ pc' = "returned") =>
         /\ m'.Performances =
              IF TrailingLoad(consumed) # 0
              THEN Append(m.Performances, p)
              ELSE m.Performances
         /\ s'.Errors = s.Errors
         /\ ret'.session.Movements =
              IF m.Name # <<>> THEN Append(s.Movements, m') ELSE s.Movements
         /\ (consumed # <<>> /\ IsMovement(LastToken) /\ NoLoad(consumed)) =>
              /\ m'.Name = LastToken.value
              /\ m'.Performances = <<>>]_vars

\* C2 witness: Movement then an explicitly zero Load: the movement is returned
\* with no performance and no diagnostic.
C2_Witness ==
    /\ pc = "returned"
    /\ Kinds(consumed) = <<"MOVEMENT", "LOAD">>
    /\ p.Load = 0
    /\ Len(ret.session.Movements) = 1
    /\ ret.session.Movements[1].Performances = <<>>
    /\ ret.session.Errors = <<>>

----------------------------------------------------------------------------
\* Load tokens and the performances a movement gains

\* The performances the current Movement held when the last Movement token
\* had been processed.
HeldWhenNamed(toks) ==
    Len(Run(SubSeq(toks, 1, LastMovementIdx(toks)), CHOOSE t \in Clock : TRUE).m.Performances)

\* C3 (amended): each Load token after a Movement token gives that Movement
\* one Performance, in order, on top of those it held when named: the one
\* still open is appended by the next Load or Movement token, and at the end
\* of the stream only if its load is non-zero (so Movement, Load, Load gives
\* two Performances unless the stream ends with the second one open at load
\* zero, which gives one).
C3_OnePerformancePerLoad ==
    /\ (pc \in {"loop", "returned"} /\ HasMovement(consumed)) =>
          LET ls    == LoadsSinceMovement(consumed)
              base  == HeldWhenNamed(consumed)
              open  == IF ls # <<>> /\ (pc = "loop" \/ TrailingLoad(consumed) = 0)
                       THEN 1 ELSE 0
              gain  == Len(ls) - open
          IN  /\ Len(m.Performances) = base + gain
              /\ \A i \in 1..gain :
                   m.Performances[base + i].Load = floatValue(ls[i].value, "load").val
              /\ (pc = "loop" /\ ls # <<>>) =>
                   p.Load = floatValue(ls[Len(ls)].value, "load").val
    \* a Movement token has just closed the Movement named before it
    /\ (pc = "loop" /\ consumed # <<>> /\ IsMovement(LastToken)
          /\ HasMovement(SubSeq(consumed, 1, Len(consumed) - 1))) =>
          LET prev   == SubSeq(consumed, 1, Len(consumed) - 1)
              ls     == LoadsSinceMovement(prev)
              base   == HeldWhenNamed(prev)
              closed == IF prev[LastMovementIdx(prev)].value # <<>>
                        THEN s.Movements[Len(s.Movements)]
                        ELSE m
          IN  /\ Len(closed.Performances) = base + Len(ls)
              /\ \A i \in 1..Len(ls) :
                   closed.Performances[base + i].Load =
                     floatValue(ls[i].value, "load").val

\* C3 witness: Movement, Load, Load with a non-zero second load: two
\* performances in the returned movement.
C3_Witness ==
    /\ pc = "returned"
    /\ Kinds(consumed) = <<"MOVEMENT", "LOAD", "LOAD">>
    /\ Len(ret.session.Movements) = 1
    /\ Len(ret.session.Movements[1].Performances) = 2

\* C3 as stated: a (named) Movement token followed by two Load tokens and no
\* further Movement token always ends up, in the result, with two
\* Performances.
C3_TwoLoadsTwoPerformances ==
    (pc = "returned" /\ HasMovement(consumed)
       /\ consumed[LastMovementIdx(consumed)].value # <<>>
       /\ Len(LoadsSinceMovement(consumed)) = 2) =>
        LET ms == ret.session.Movements
        IN  ms # <<>> /\ Len(ms[Len(ms)].Performances) = 2

----------------------------------------------------------------------------
\* Malformed values

\* C4 as stated: a Reps, Sets or Fails token whose value is no integer adds
\* exactly one diagnostic, leaves reps, sets and fails of the current
\* Performance as they were, and the loop goes on.
C4_MalformedKeepsPrior ==
    [][(/\ pc = "loop"
        /\ Len(consumed') = Len(consumed) + 1
        /\ consumed'[Len(consumed')].name \in {"REPS", "SETS", "FAILS"}
        /\ ~Atoi(consumed'[Len(consumed')].value).ok) =>
         /\ pc' = "loop"
         /\ Len(s'.Errors) = Len(s.Errors) + 1
         /\ p'.Reps = p.Reps
         /\ p'.Sets = p.Sets
         /\ p'.Fails = p.Fails]_vars

\* C5 as stated: a Metadata token whose value holds no ":" is recovered from:
\* the builder does not crash, a diagnostic is recorded and the loop goes on.
C5_MalformedMetadataRecovers ==
    (consumed # <<>> /\ LastToken.name = "METADATA"
       /\ MetadataPanics(LastToken.value)) =>
        /\ pc \in {"loop", "returned"}
        /\ s.Errors # <<>>

----------------------------------------------------------------------------
\* Defaults

\* Every performance the builder holds: flushed, current, or returned.
PerformancesOf(ms) ==
    UNION {{ms[i].Performances[j] : j \in 1..Len(ms[i].Performances)} :
             i \in 1..Len(ms)}

AllPerformances ==
    PerformancesOf(s.Movements) \cup PerformancesOf(<<m>>) \cup {p}
        \cup PerformancesOf(ret.session.Movements)

NoRepsSets(toks) == \A i \in 1..Len(toks) : toks[i].name \notin {"REPS", "SETS"}

\* C6: reps and sets default to 1: for a stream with no Reps and no Sets token
\* every Performance (flushed, current or returned) has reps = 1 and sets = 1;
\* and a token that is neither Reps nor Sets leaves reps and sets of the
\* current Performance as they are or starts a Performance with reps = 1 and
\* sets = 1.
C6_RepsSetsDefault ==
    /\ [](NoRepsSets(consumed) =>
            \A perf \in AllPerformances : perf.Reps = 1 /\ perf.Sets = 1)
    /\ [][(/\ pc = "loop"
           /\ Len(consumed') = Len(consumed) + 1
           /\ consumed'[Len(consumed')].name \notin {"REPS", "SETS"}) =>
            \/ p'.Reps = p.Reps /\ p'.Sets = p.Sets
            \/ p'.Reps = 1 /\ p'.Sets = 1 /\ inPerformance]_vars

\* C6 witness: Movement, Load: the returned performance has the load and
\* reps = sets = 1.
C6_Witness ==
    /\ pc = "returned"
    /\ Kinds(consumed) = <<"MOVEMENT", "LOAD">>
    /\ Len(ret.session.Movements) = 1
    /\ Len(ret.session.Movements[1].Performances) = 1
    /\ ret.session.Movements[1].Performances[1].Load = 80
    /\ ret.session.Movements[1].Performances[1].Reps = 1
    /\ ret.session.Movements[1].Performances[1].Sets = 1

----------------------------------------------------------------------------
\* Streams with no Movement token

\* The values of the Note tokens of toks, in order.
NotesOf(toks) ==
    LET ns == SelectSeq(toks, LAMBDA tok : tok.name = "NOTE")
    IN  [i \in 1..Len(ns) |-> ns[i].value]

\* The map the Metadata tokens of toks build, later pairs overwriting.
RECURSIVE MetadataOf(_)
MetadataOf(toks) ==
    IF toks = <<>> THEN EmptyMap
    ELSE LET front == MetadataOf(SubSeq(toks, 1, Len(toks) - 1))
             tok   == toks[Len(toks)]
         IN  IF tok.name = "METADATA"
             THEN Put(front, MetadataKey(tok.value), MetadataValue(tok.value))
             ELSE front

\* C7: as long as the stream holds no Movement token the Session has no
\* Movement, every Note and Metadata token is in the Session's notes and
\* metadata, none is in the current Movement or Performance, and the Session
\* returned is that Session.
C7_NoMovementSessionScope ==
    (pc \in {"loop", "returned"} /\ ~HasMovement(consumed)) =>
        /\ s.Movements = <<>>
        /\ s.Notes = NotesOf(consumed)
        /\ s.Metadata = MetadataOf(consumed)
        /\ m.Notes = <<>> /\ m.Metadata = EmptyMap
        /\ p.Notes = <<>> /\ p.Metadata = EmptyMap
        /\ pc = "returned" => ret.session = s

\* C7 witness: Load, Metadata, Note and no Movement: both land in the session.
C7_Witness ==
    /\ pc = "returned"
    /\ Kinds(consumed) = <<"LOAD", "METADATA", "NOTE">>
    /\ ret.session.Movements = <<>>
    /\ Len(ret.session.Notes) = 1
    /\ DOMAIN ret.session.Metadata # {}

----------------------------------------------------------------------------
\* Dates

\* C8: a Date token the interpreter rejects sets the session date to a
\* reading of the clock and appends exactly one diagnostic; one it accepts
\* sets the date to the interpreted timestamp and appends none; either way
\* the loop goes on.
C8_DateFallback ==
    [][Took({"DATE"}) =>
         LET d == DateParseAny(consumed'[Len(consumed')].value)
         IN  IF d.ok
             THEN s'.Date = d.time /\ s'.Errors = s.Errors
             ELSE /\ s'.Date \in Clock
                  /\ Len(s'.Errors) = Len(s.Errors) + 1
                  /\ SubSeq(s'.Errors, 1, Len(s.Errors)) = s.Errors
                  /\ s'.Errors[Len(s'.Errors)].t = "date"]_vars
    /\ [][(pc = "loop" /\ Len(consumed') = Len(consumed) + 1
             /\ consumed'[Len(consumed')].name = "DATE") => pc' = "loop"]_vars

\* C8 witness: a rejected Date: the date is a clock reading, one diagnostic.
C8_Witness ==
    /\ pc = "loop"
    /\ consumed = <<Tok("DATE", <<"x">>)>>
    /\ s.Date \in Clock
    /\ Len(s.Errors) = 1

----------------------------------------------------------------------------
\* Entry points

\* C9 as stated: an entry point returns a non-nil error with an empty Session
\* exactly when NewLexer fails (its error as is) or Scan fails (its error
\* wrapped); once both succeeded it returns the builder's Session and a nil
\* error, whatever the tokens are.
C9_EntryPointOutcome ==
    /\ (pc = "returned" /\ failed = "NewLexer") =>
          ret = [session |-> EmptySession, err |-> LexerError]
    /\ (pc = "returned" /\ failed = "Scan") =>
          ret = [session |-> EmptySession, err |-> WrapError("Scan")]
    /\ (pc = "returned" /\ failed = "none") =>
          ret = [session |-> s, err |-> NilError]
    /\ pc # "panic"

----------------------------------------------------------------------------
\* Unknown kinds

KnownKinds ==
    {"DATE", "FAILS", "LOAD", "METADATA", "MOVEMENT", "MOVEMENT_SS", "NOTE",
     "REPS", "SETS"}

Known(toks) == SelectSeq(toks, LAMBDA tok : tok.name \in KnownKinds)

\* The fallback dates aside (each is its own reading of the clock).
DateAside(st) == [st EXCEPT !.s.Date = ZeroTime]

\* C10: a token of a kind the builder has no case for is ignored: taking it
\* leaves the flags, the current Performance, Movement and Session
\* (diagnostics included) unchanged, so after any stream they are what they
\* are after the same stream with those tokens removed.
C10_UnknownKindIgnored ==
    /\ []((pc \in {"loop", "returned"}) =>
            LET st == Run(Known(consumed), CHOOSE t \in Clock : TRUE)
            IN  DateAside(State) =
                  DateAside(IF pc = "returned" THEN Finish(st) ELSE st))
    /\ [][(/\ pc = "loop"
           /\ Len(consumed') = Len(consumed) + 1
           /\ consumed'[Len(consumed')].name \notin KnownKinds) =>
            pc' = "loop" /\ UNCHANGED builder]_vars

\* C10 witness: Movement, an unknown kind, Load: one movement, one performance.
C10_Witness ==
    /\ pc = "returned"
    /\ Kinds(consumed) = <<"MOVEMENT", "UNIT", "LOAD">>
    /\ Len(ret.session.Movements) = 1
    /\ Len(ret.session.Movements[1].Performances) = 1

----------------------------------------------------------------------------
\* The two entry points

\* What an entry point gives for the scanner's outcomes alone: which call
\* failed and, if none, the tokens scanned.
OutcomeOf(fail, toks) ==
    IF fail = "NewLexer" THEN [session |-> EmptySession, err |-> LexerError]
    ELSE IF fail = "Scan"
         THEN [session |-> EmptySession, err |-> WrapError("Scan")]
         ELSE [session |-> Finish(Run(toks, CHOOSE t \in Clock : TRUE)).s,
               err |-> NilError]

\* C11: ParseByte and ParseString have the same semantics: whichever is
\* called, lexer.Scan receives exactly the bytes of the text, and what is
\* returned is decided by the scanner's outcomes (the failing call, the
\* tokens) alone, fallback dates aside.
C11_SameSemantics ==
    /\ pc \in {"loop", "returned", "panic"} /\ failed # "NewLexer" =>
          scanned = txt
    /\ pc = "returned" =>
          LET want == OutcomeOf(failed, consumed)
          IN  /\ ret.err = want.err
              /\ [ret.session EXCEPT !.Date = ZeroTime] =
                   [want.session EXCEPT !.Date = ZeroTime]

\* C11 witness: ParseString on a text that is no valid UTF-8 has scanned its
\* very bytes and returned a movement.
C11_Witness ==
    /\ pc = "returned"
    /\ entry = "ParseString"
    /\ \E i \in 1..Len(txt) : txt[i] > 127
    /\ scanned = txt
    /\ failed = "none"
    /\ Len(ret.session.Movements) = 1

----------------------------------------------------------------------------
\* Leaving the session scope

FirstMovementIdx(toks) ==
    CHOOSE i \in 1..Len(toks) :
        IsMovement(toks[i]) /\ \A j \in 1..(i - 1) : ~IsMovement(toks[j])

\* The tokens before the first Movement token (all of them if there is none).
BeforeFirstMovement(toks) ==
    IF HasMovement(toks) THEN SubSeq(toks, 1, FirstMovementIdx(toks) - 1) ELSE toks

\* C12: inSession is true until the first Movement / MovementSuperset token
\* and false in every state after it, whatever tokens follow; so the Session
\* holds exactly the notes and metadata of the tokens before the first
\* Movement token.
C12_InSessionUntilFirstMovement ==
    (pc \in {"loop", "returned"}) =>
        /\ inSession = ~HasMovement(consumed)
        /\ s.Notes = NotesOf(BeforeFirstMovement(consumed))
        /\ s.Metadata = MetadataOf(BeforeFirstMovement(consumed))

\* C12 witness: Note, Movement, Note: inSession is false and only the first
\* note is the session's.
C12_Witness ==
    /\ pc = "loop"
    /\ Kinds(consumed) = <<"NOTE", "MOVEMENT", "NOTE">>
    /\ ~inSession
    /\ Len(s.Notes) = 1
    /\ Len(m.Notes) = 1

----------------------------------------------------------------------------
\* The movement list

MovementTokensOf(toks) == SelectSeq(toks, IsMovement)

AllNamed(toks) == \A i \in 1..Len(toks) : IsMovement(toks[i]) => toks[i].value # <<>>

\* The names the Movement tokens of toks carry, in order.
NamesOf(toks) ==
    LET ms == MovementTokensOf(toks) IN [i \in 1..Len(ms) |-> ms[i].value]

Names(ms) == [i \in 1..Len(ms) |-> ms[i].Name]

\* C13: when every Movement / MovementSuperset token carries a non-empty
\* name, the returned movement list holds one Movement per such token, in
\* stream order, under the token's name, a repeated name included; during the
\* loop the last of them is the current Movement.
C13_OneMovementPerToken ==
    AllNamed(consumed) =>
        /\ pc = "returned" =>
              /\ Names(ret.session.Movements) = NamesOf(consumed)
              /\ ret.session = s
        /\ pc = "loop" =>
              Names(s.Movements) \o (IF HasMovement(consumed) THEN <<m.Name>> ELSE <<>>)
                = NamesOf(consumed)

\* C13 witness: the same name twice and another one: three movements.
C13_Witness ==
    /\ pc = "returned"
    /\ Names(ret.session.Movements) = << <<"S">>, <<"S">>, <<"B">> >>

\* C14 as stated: a returned Movement's superset flag is true iff the token
\* that gave it its name was a MovementSuperset token: the last returned
\* Movement's flag follows the last Movement token (when that token carries a
\* name), whatever tokens preceded it, and, all names being non-empty, the
\* i-th returned Movement's flag follows the i-th Movement token.
C14_SuperSetFollowsNamingToken ==
    /\ (pc = "returned" /\ HasMovement(consumed)
          /\ consumed[LastMovementIdx(consumed)].value # <<>>) =>
          LET ms == ret.session.Movements
          IN  /\ ms # <<>>
              /\ ms[Len(ms)].Name = consumed[LastMovementIdx(consumed)].value
              /\ ms[Len(ms)].SuperSet =
                   (consumed[LastMovementIdx(consumed)].name = "MOVEMENT_SS")
    /\ (pc = "returned" /\ AllNamed(consumed)) =>
          LET ms == MovementTokensOf(consumed)
          IN  /\ Len(ret.session.Movements) = Len(ms)
              /\ \A i \in 1..Len(ms) :
                   ret.session.Movements[i].SuperSet = (ms[i].name = "MOVEMENT_SS")


----------------------------------------------------------------------------
\* Order of performances

\* The loads the Load tokens of toks parse to, in stream order.
ParsedLoads(toks) ==
    LET ls == SelectSeq(toks, LAMBDA tok : tok.name = "LOAD")
    IN  [i \in 1..Len(ls) |-> floatValue(ls[i].value, "load").val]

LoadsOf(perfs) == [i \in 1..Len(perfs) |-> perfs[i].Load]

\* The loads of the performances of the movements ms, movement by movement.
RECURSIVE FlatLoads(_)
FlatLoads(ms) ==
    IF ms = <<>> THEN <<>>
    ELSE FlatLoads(SubSeq(ms, 1, Len(ms) - 1)) \o LoadsOf(ms[Len(ms)].Performances)

IsPrefix(a, b) == Len(a) <= Len(b) /\ SubSeq(b, 1, Len(a)) = a

\* C15: performances are listed in the order of their Load tokens: during the
\* loop the performances of the flushed movements, then of the current
\* Movement, then the open one carry the loads of the Load tokens taken so
\* far, in stream order; the returned ones carry a prefix of them (the tail
\* being what the end-of-stream flush drops).
C15_PerformanceOrder ==
    /\ pc = "loop" =>
          FlatLoads(s.Movements) \o LoadsOf(m.Performances)
              \o (IF inPerformance THEN <<p.Load>> ELSE <<>>)
            = ParsedLoads(consumed)
    /\ pc = "returned" =>
          IsPrefix(FlatLoads(ret.session.Movements), ParsedLoads(consumed))

\* C15 witness: Movement, Load 0, Load 80: the movement lists 0 then 80.
C15_Witness ==
    /\ pc = "returned"
    /\ Kinds(consumed) = <<"MOVEMENT", "LOAD", "LOAD">>
    /\ Len(ret.session.Movements) = 1
    /\ LoadsOf(ret.session.Movements[1].Performances) = <<0, 80>>

-----------------------------------------------------------------------------
\* Flushed entities are closed

\* The entity x without its children.
Own(x) == [x EXCEPT !.Performances = <<>>]

\* One step of the parse taken from the loop: a token's case or the return.
\* The movements the Session lists stay as they are, whatever the Session
\* lists more is the current Movement as it was (with at most the current
\* Performance as it was appended), and the performances the current Movement
\* lists stay as they are, whatever it lists more being the current
\* Performance as it was.
FlushedKept ==
    LET n    == Len(s.Movements)
        k    == Len(m.Performances)
        more == Len(s'.Movements) > n
        was  == IF more THEN s'.Movements[n + 1] ELSE m'
    IN  /\ IsPrefix(s.Movements, s'.Movements)
        /\ Len(s'.Movements) <= n + 1
        /\ more => Own(was) = Own(m)
        /\ IsPrefix(m.Performances, was.Performances)
        /\ Len(was.Performances) <= k + 1
        /\ Len(was.Performances) = k + 1 => was.Performances[k + 1] = p

\* C16: once a Performance is in a Movement's list, or a Movement in the
\* Session's list, no later token changes it: every step taken from the loop
\* leaves the listed entities as they were and only appends the current
\* Performance or Movement as it was; what a token writes goes to the
\* Session or to a current Performance or Movement that no list holds.
C16_FlushedAreClosed ==
    [][pc = "loop" =>
         /\ FlushedKept
         /\ pc' = "loop" => pHeld' = {} /\ mHeld' = {}]_vars

\* C16 witness: Movement S, Movement B, Note: S is in the Session's list and
\* the note is on B alone.
C16_Witness ==
    /\ pc = "loop"
    /\ Kinds(consumed) = <<"MOVEMENT", "MOVEMENT", "NOTE">>
    /\ Len(s.Movements) = 1
    /\ s.Movements[1].Notes = <<>>
    /\ m.Notes # <<>>
    /\ mHeld = {}

-----------------------------------------------------------------------------
\* The value of a Metadata pair

\* What is left of str after its first sep ("" if it has none).
AfterFirst(str, sep) ==
    LET i == IndexOf(str, sep)
    IN  IF i = 0 THEN <<>> ELSE SubSeq(str, i + 1, Len(str))

\* The entity the scope names among the builder's locals.
InScope(scope) ==
    IF scope = "session" THEN s ELSE IF scope = "performance" THEN p ELSE m

\* C17: a Metadata token's text is split on its first separator only: right
\* after a Metadata token with a ":" in it, its scope holds under the
\* trimmed key the trimmed whole of what follows the first ":".
C17_ValueIsWholeRemainder ==
    (pc = "loop" /\ consumed # <<>> /\ LastToken.name = "METADATA"
       /\ ~MetadataPanics(LastToken.value)) =>
        LET key == MetadataKey(LastToken.value)
            x   == InScope(ScopeOf(SubSeq(consumed, 1, Len(consumed) - 1)))
        IN  /\ key \in DOMAIN x.Metadata
            /\ x.Metadata[key] = Trim(AfterFirst(LastToken.value, ":"), " ")

-----------------------------------------------------------------------------
\* Whose Load tokens a Movement's performances come from

\* Index in toks of its i-th Movement / MovementSuperset token.
NthMovementIdx(toks, i) ==
    CHOOSE j \in 1..Len(toks) :
        /\ IsMovement(toks[j])
        /\ Cardinality({k \in 1..j : IsMovement(toks[k])}) = i

\* The tokens after the i-th Movement token of toks and before the next one.
Segment(toks, i) ==
    LET last == IF i < Len(MovementTokensOf(toks))
                THEN NthMovementIdx(toks, i + 1) - 1
                ELSE Len(toks)
    IN  SubSeq(toks, NthMovementIdx(toks, i) + 1, last)

\* C18: every Performance a Movement lists was defined by a Load token that
\* came after the Movement's naming token and before the next Movement
\* token: with every Movement token named, the loads of the i-th returned
\* Movement's performances are, in order, loads of the Load tokens between
\* the i-th Movement token and the next; a Load token before the first
\* Movement token gives no Movement a Performance.
C18_PerformancesFromOwnLoads ==
    (pc = "returned" /\ AllNamed(consumed)) =>
        \A i \in 1..Len(ret.session.Movements) :
            IsPrefix(LoadsOf(ret.session.Movements[i].Performances),
                     ParsedLoads(Segment(consumed, i)))

-----------------------------------------------------------------------------
\* Reps, Sets and Fails tokens outside a Performance

\* The tokens after the last Movement token of toks.
SinceMovement(toks) == SubSeq(toks, LastMovementIdx(toks) + 1, Len(toks))

NoCounts(toks) ==
    \A i \in 1..Len(toks) : toks[i].name \notin {"REPS", "SETS", "FAILS"}

-----------------------------------------------------------------------------
\* Structural invariants of the builder

\* C20: while tokens are taken, a non-zero load on the current Performance
\* implies inPerformance, and the current Performance and the current
\* Movement are in no list; so whatever is appended was listed nowhere
\* before: after the end-of-stream flush the last Performance and the last
\* Movement are each listed at most once, and the Performance is listed only
\* if a Load token opened it.
C20_BuilderInvariants ==
    /\ pc = "loop" =>
          /\ p.Load # 0 => inPerformance
          /\ pHeld = {}
          /\ mHeld = {}
    /\ pc = "returned" =>
          /\ Cardinality(pHeld) <= 1
          /\ Cardinality(mHeld) <= 1
          /\ pHeld # {} => inPerformance /\ LoadsSinceMovement(consumed) # <<>>

\* C20 witness: Movement, Load, Load: the first performance was flushed by
\* the second Load, the second one and the Movement by the end of the stream.
C20_Witness ==
    /\ pc = "returned"
    /\ Kinds(consumed) = <<"MOVEMENT", "LOAD", "LOAD">>
    /\ Len(ret.session.Movements) = 1
    /\ Len(ret.session.Movements[1].Performances) = 2
    /\ pHeld = {<<0, 2>>}
    /\ mHeld = {1}

====
